---------------------------- MODULE Spec2Model ----------------------------
(***************************************************************************)
(* Model of src/index.js: the Reddit-post-to-video pipeline.               *)
(*                                                                         *)
(* A text is a sequence of one-character strings.  The text helpers of     *)
(* JavaScript that the program uses (split, join, toLowerCase, includes,   *)
(* the regular expressions) are operators on such sequences.               *)
(***************************************************************************)
EXTENDS Integers, Sequences, FiniteSets, TLC

VARIABLES
    \* splitTextIntoSegments(text, minWords), src/index.js:527-551
    text,            \* the argument text
    minWords,        \* the argument minWords
    words,           \* const words = text.split(/\s+/)
    wi,              \* number of words the forEach has visited
    segments,        \* const segments = []
    currentSegment,  \* let currentSegment = []
    segPc,           \* "start" | "loop" | "done"
    \* splitVideo(inputPath, segmentDuration), src/index.js:369-453
    cwd,             \* the working directory: the segment_N.mp4 files (N -> duration
                     \* in seconds) and whether concat_list.txt is there
    splitCut,        \* the durations of the chunks ffmpeg cut in the last call
    splitEnv,        \* what the tools did in the last call
    splitResult,     \* what the last call's promise settled to
    splitCalls,      \* number of calls so far
    \* the admission test of processPost, src/index.js:561-579
    post,            \* the post handed to processPost
    admitted,        \* "none" before the test, then "accepted" or "rejected"
    \* the run: processSubreddits and processPost, src/index.js:561-679
    shortTitleCache, \* let shortTitleCache: raw title -> short title
    cacheFile,       \* the contents of ./shortTitleCache.json
    store,           \* the files under ./<subreddit>/<sanitized title>/
    run,             \* number of the run (process) in progress or last finished
    runPc,           \* "idle" | "fetch" | "posts" | "done" | "aborted"
    subIdx,          \* position in the subreddits loop, from 1
    posts,           \* const posts, the posts fetched for the subreddit
    postIdx,         \* position in the posts loop, from 1
    pc,              \* where processPost stands
    corrected,       \* const correctedText (which text it is)
    shortTitle,      \* const shortTitle
    nSegs,           \* segments.length
    segIdx,          \* segmentIndex = i + 1
    narration,       \* how the last generateSegmentSpeech call ended
    calls,           \* the calls made to the external services, all runs
    uploads,         \* the clips handed to uploadToYouTube, all runs
    faults,          \* failed external calls and deletions so far
    failures,        \* the external calls that failed, all runs
    writes           \* the files written to the store, all runs

segVars == <<text, minWords, words, wi, segments, currentSegment, segPc>>

splitVars == <<cwd, splitCut, splitEnv, splitResult, splitCalls>>

admitVars == <<post, admitted>>

cacheVars == <<shortTitleCache, cacheFile>>

loopVars == <<run, runPc, subIdx, posts, postIdx>>

postVars == <<pc, corrected, shortTitle, nSegs, segIdx, narration>>

pipeVars == <<cacheVars, store, loopVars, postVars, calls, uploads, faults, failures, writes>>

vars == <<segVars, splitVars, admitVars, pipeVars>>

-----------------------------------------------------------------------------
(* Bounds of the model *)

MaxLen == 5        \* longest text enumerated character by character
MaxWords == 5      \* longest text enumerated word by word
MaxMinWords == 3   \* largest minWords enumerated
MaxSplitCalls == 3 \* splitVideo calls in one working directory
MaxSmallBody == 2  \* the short post bodies have 0..MaxSmallBody words
MaxRuns == 2       \* runs of the program over the same artifact store
MaxFaults == 1     \* failed or empty external answers and deletions by hand, all runs
BackgroundSeconds == 65  \* length of ./videoplayback.mp4

-----------------------------------------------------------------------------
(* Text helpers *)

\* The characters the regular expression class \s matches (those in use).
Whitespace == {" ", "\n", "\t"}

\* The characters of the class [.!?] of line 536.
Terminal == {".", "!", "?"}

Str(s) == [i \in 1..Len(s) |-> s[i]]

IsSpace(c) == c \in Whitespace

\* A maximal run of non-whitespace starts (ends) at position i of s.
RunStartsAt(s, i) == ~IsSpace(s[i]) /\ (i = 1 \/ IsSpace(s[i - 1]))
RunEndsAt(s, i) == ~IsSpace(s[i]) /\ (i = Len(s) \/ IsSpace(s[i + 1]))

\* The positions of lo..hi where a run starts (ends), in increasing order (by
\* halving, so that long texts do not nest deeply).
RECURSIVE RunStarts(_, _, _)
RunStarts(s, lo, hi) ==
    IF lo > hi THEN <<>>
    ELSE IF lo = hi THEN (IF RunStartsAt(s, lo) THEN <<lo>> ELSE <<>>)
    ELSE LET mid == (lo + hi) \div 2
         IN  RunStarts(s, lo, mid) \o RunStarts(s, mid + 1, hi)

RECURSIVE RunEnds(_, _, _)
RunEnds(s, lo, hi) ==
    IF lo > hi THEN <<>>
    ELSE IF lo = hi THEN (IF RunEndsAt(s, lo) THEN <<lo>> ELSE <<>>)
    ELSE LET mid == (lo + hi) \div 2
         IN  RunEnds(s, lo, mid) \o RunEnds(s, mid + 1, hi)

\* s.split(/\s+/): the pieces between the maximal runs of whitespace; a text
\* that starts (ends) with whitespace has an empty first (last) piece, and
\* the empty text has the one piece "".
SplitWs(s) ==
    IF Len(s) = 0 THEN << <<>> >>
    ELSE LET starts == RunStarts(s, 1, Len(s))
             ends == RunEnds(s, 1, Len(s))
             runs == [k \in 1..Len(starts) |-> SubSeq(s, starts[k], ends[k])]
         IN  (IF IsSpace(s[1]) THEN << <<>> >> ELSE <<>>)
                 \o runs
                 \o (IF IsSpace(s[Len(s)]) THEN << <<>> >> ELSE <<>>)

RECURSIVE JoinRange(_, _, _, _)
JoinRange(ws, lo, hi, sep) ==
    IF lo > hi THEN <<>>
    ELSE IF lo = hi THEN ws[lo]
    ELSE LET mid == (lo + hi) \div 2
         IN  JoinRange(ws, lo, mid, sep) \o sep \o JoinRange(ws, mid + 1, hi, sep)

\* ws.join(" ")
Join(ws) == JoinRange(ws, 1, Len(ws), <<" ">>)

\* /[.!?]$/.test(word)
EndsWithTerminal(word) == Len(word) > 0 /\ word[Len(word)] \in Terminal

-----------------------------------------------------------------------------
(* splitTextIntoSegments *)

PushWordCloseAtMin(st, word, m) ==
    LET cur == Append(st.currentSegment, word)
    IN  IF Len(cur) >= m
        THEN [segments |-> Append(st.segments, Join(cur)), currentSegment |-> <<>>]
        ELSE [segments |-> st.segments, currentSegment |-> cur]

PushWordCloseAtAnyTerminal(st, word, m) ==
    LET cur == Append(st.currentSegment, word)
    IN  IF EndsWithTerminal(word)
        THEN [segments |-> Append(st.segments, Join(cur)), currentSegment |-> <<>>]
        ELSE [segments |-> st.segments, currentSegment |-> cur]

\* The forEach callback, lines 532-541.
PushWord(st, word, m) ==
    LET cur == Append(st.currentSegment, word)
    IN  IF Len(cur) >= m /\ EndsWithTerminal(word)
        THEN [segments |-> Append(st.segments, Join(cur)), currentSegment |-> <<>>]
        ELSE [segments |-> st.segments, currentSegment |-> cur]

RemainderAlwaysOwn(st, m) ==
    IF Len(st.currentSegment) > 0
    THEN Append(st.segments, Join(st.currentSegment))
    ELSE st.segments

RemainderGlued(st, m) ==
    LET segs == st.segments
        cur == st.currentSegment
    IN  IF Len(cur) > 0
        THEN IF Len(segs) > 0 /\ Len(cur) < m
             THEN [segs EXCEPT ![Len(segs)] = @ \o Join(cur)]
             ELSE Append(segs, Join(cur))
        ELSE segs

\* The remainder, lines 543-550: the value returned.
Remainder(st, m) ==
    LET segs == st.segments
        cur == st.currentSegment
    IN  IF Len(cur) > 0
        THEN IF Len(segs) > 0 /\ Len(cur) < m
             THEN [segs EXCEPT ![Len(segs)] = @ \o <<" ">> \o Join(cur)]
             ELSE Append(segs, Join(cur))
        ELSE segs

\* words.forEach over ws[lo..hi], in order, from state st (by halving).
RECURSIVE ForEachWord(_, _, _, _, _)
ForEachWord(st, ws, lo, hi, m) ==
    IF lo > hi THEN st
    ELSE IF lo = hi THEN PushWord(st, ws[lo], m)
    ELSE LET mid == (lo + hi) \div 2
             left == ForEachWord(st, ws, lo, mid, m)
         IN  \* the first half is evaluated before the second half starts
             IF left \in {left} THEN ForEachWord(left, ws, mid + 1, hi, m) ELSE st

\* The whole function, as its callers use it.
splitTextIntoSegments(t, m) ==
    LET ws == SplitWs(t)
    IN  Remainder(ForEachWord([segments |-> <<>>, currentSegment |-> <<>>],
                              ws, 1, Len(ws), m), m)

-----------------------------------------------------------------------------
(* Inputs of splitTextIntoSegments *)

Alphabet == {"a", ".", " ", "\n"}

Vocabulary == {<<"a">>, <<"b", ".">>}

SeqsUpTo(S, n) == UNION {[1..k -> S] : k \in 0..n}

ExampleOne == Str(<<"a"," ","b"," ","c"," ","d"," ","e"," ","f",".">>)

ExampleTwo ==
    Str(<<"a"," ","b"," ","c","."," ","d"," ","e"," ","f"," ","g"," ","h"," ","i",".">>)

Texts ==
    SeqsUpTo(Alphabet, MaxLen)
      \cup {Join(ws) : ws \in SeqsUpTo(Vocabulary, MaxWords)}
      \cup {ExampleOne, ExampleTwo}

\* No call of splitTextIntoSegments is in progress.
SegIdle ==
    /\ text = <<>>
    /\ minWords = 1
    /\ words = <<>>
    /\ wi = 0
    /\ segments = <<>>
    /\ currentSegment = <<>>
    /\ segPc = "idle"

\* No text: the value of a title or text variable that is not set.
NoText == <<>>

\* The locals of processPost when no post is being processed.
PostIdle ==
    /\ pc = "admit"
    /\ corrected = "none"
    /\ shortTitle = NoText
    /\ nSegs = 0
    /\ segIdx = 0
    /\ narration = "none"

\* The program was never run: no cache file, no artifact.
PipeIdle ==
    /\ shortTitleCache = {}
    /\ cacheFile = {}
    /\ store = {}
    /\ run = 0
    /\ runPc = "idle"
    /\ subIdx = 0
    /\ posts = <<>>
    /\ postIdx = 0
    /\ PostIdle
    /\ calls = {}
    /\ uploads = {}
    /\ faults = 0
    /\ failures = {}
    /\ writes = {}

\* No post is being tested for admission.
AdmitIdle ==
    /\ post = [title |-> <<>>, selftext |-> [n |-> 0, first |-> <<>>, sep |-> <<>>]]
    /\ admitted = "none"

\* The working directory holds no chunk and splitVideo was never called.
SplitIdle ==
    /\ cwd = [chunks |-> {}, concatList |-> FALSE]
    /\ splitCut = <<>>
    /\ splitEnv = [probe |-> "none", merge |-> "none"]
    /\ splitResult = [status |-> "none", segments |-> <<>>]
    /\ splitCalls = 0

InitSeg ==
    /\ PipeIdle
    /\ SplitIdle
    /\ AdmitIdle
    /\ text \in Texts
    /\ minWords \in 1..MaxMinWords
    /\ words = <<>>
    /\ wi = 0
    /\ segments = <<>>
    /\ currentSegment = <<>>
    /\ segPc = "start"

\* Line 528-530.
SegSplit ==
    /\ segPc = "start"
    /\ words' = SplitWs(text)
    /\ segPc' = "loop"
    /\ UNCHANGED <<text, minWords, wi, segments, currentSegment>>

\* One call of the forEach callback, lines 532-541.
SegForEach ==
    /\ segPc = "loop"
    /\ wi < Len(words)
    /\ LET st == PushWord([segments |-> segments, currentSegment |-> currentSegment],
                          words[wi + 1], minWords)
       IN  /\ segments' = st.segments
           /\ currentSegment' = st.currentSegment
    /\ wi' = wi + 1
    /\ UNCHANGED <<text, minWords, words, segPc>>

\* Lines 542-550.
SegRemainder ==
    /\ segPc = "loop"
    /\ wi = Len(words)
    /\ segments' = Remainder([segments |-> segments,
                              currentSegment |-> currentSegment], minWords)
    /\ segPc' = "done"
    /\ UNCHANGED <<text, minWords, words, wi, currentSegment>>

NextSeg ==
    \/ SegSplit /\ UNCHANGED <<splitVars, admitVars, pipeVars>>
    \/ SegForEach /\ UNCHANGED <<splitVars, admitVars, pipeVars>>
    \/ SegRemainder /\ UNCHANGED <<splitVars, admitVars, pipeVars>>

SpecSeg == InitSeg /\ [][NextSeg]_vars

-----------------------------------------------------------------------------
(* splitVideo *)

\* segmentDuration = 60, the default of line 369.
SegmentDuration == 60

\* The threshold of line 414, in seconds.
MinLastDuration == 30

\* The clips handed to splitVideo, by duration in seconds.
ClipDurations == {10, 70, 145, 205, 225}

\* ffmpeg -f segment -segment_time d: consecutive chunks of d seconds, the last
\* one holding what is left.
RECURSIVE CutChunks(_, _)
CutChunks(total, d) ==
    IF total <= d THEN <<total>> ELSE <<d>> \o CutChunks(total - d, d)

\* Writing segment_0.mp4 .. segment_(k-1).mp4, over any file of the same name.
WriteChunks(chunks, cut) ==
    {f \in chunks : f.n >= Len(cut)}
        \cup {[n |-> k - 1, dur |-> cut[k]] : k \in 1..Len(cut)}

\* Lines 389-399: the segment_*.mp4 files of the directory, sorted by number.
ListSegments(chunks) ==
    [k \in 1..Cardinality(chunks) |->
        CHOOSE f \in chunks : Cardinality({g \in chunks : g.n < f.n}) = k - 1]

\* Lines 402-445: the check of the last segment and the merge. The result is
\* the directory's chunks, the list returned, whether concat_list.txt was
\* written and is left behind, and whether the merge was done.
Rebalance(chunks, list, probeOk, mergeOk) ==
    IF Len(list) > 1
    THEN LET lastSegment == list[Len(list)]
             lastDuration == IF probeOk THEN lastSegment.dur ELSE 0
             prevSegment == list[Len(list) - 1]
         IN  IF lastDuration < MinLastDuration
             THEN IF mergeOk
                  THEN LET mergedFile == [n |-> prevSegment.n,
                                          dur |-> prevSegment.dur + lastSegment.dur]
                       IN  [chunks |-> (chunks \ {prevSegment, lastSegment})
                                           \cup {mergedFile},
                            list |-> [SubSeq(list, 1, Len(list) - 1)
                                         EXCEPT ![Len(list) - 1] = mergedFile],
                            wroteList |-> FALSE,
                            merged |-> TRUE]
                  ELSE [chunks |-> chunks, list |-> list,
                        wroteList |-> TRUE, merged |-> FALSE]
             ELSE [chunks |-> chunks, list |-> list,
                   wroteList |-> FALSE, merged |-> FALSE]
    ELSE [chunks |-> chunks, list |-> list, wroteList |-> FALSE, merged |-> FALSE]

\* One call of splitVideo on a clip of `total` seconds, to its settled promise.
\* ffmpegOk: the split ran to its "end" event; probeOk: ffprobe of the last
\* segment answered; mergeOk: the ffmpeg concat command exited with 0.
SplitVideo(total, ffmpegOk, probeOk, mergeOk) ==
    /\ splitCalls < MaxSplitCalls
    /\ splitCalls' = splitCalls + 1
    /\ IF ~ffmpegOk
       THEN /\ splitResult' = [status |-> "rejected", segments |-> <<>>]
            /\ splitEnv' = [probe |-> "none", merge |-> "none"]
            /\ UNCHANGED <<cwd, splitCut>>
       ELSE LET cut == CutChunks(total, SegmentDuration)
                written == WriteChunks(cwd.chunks, cut)
                list == ListSegments(written)
                r == Rebalance(written, list, probeOk, mergeOk)
                probed == Len(list) > 1
                tried == probed /\ (~probeOk \/ list[Len(list)].dur < MinLastDuration)
            IN  /\ splitCut' = cut
                /\ cwd' = [chunks |-> r.chunks,
                           concatList |-> (cwd.concatList \/ r.wroteList)
                                              /\ ~r.merged]
                /\ splitEnv' = [probe |-> IF ~probed THEN "none"
                                          ELSE IF probeOk THEN "ok" ELSE "failed",
                                merge |-> IF ~tried THEN "none"
                                          ELSE IF mergeOk THEN "ok" ELSE "failed"]
                /\ splitResult' = [status |-> "resolved", segments |-> r.list]

InitSplit ==
    /\ PipeIdle
    /\ SegIdle
    /\ SplitIdle
    /\ AdmitIdle

NextSplit ==
    /\ \E total \in ClipDurations, ffmpegOk, probeOk, mergeOk \in BOOLEAN :
          SplitVideo(total, ffmpegOk, probeOk, mergeOk)
    /\ UNCHANGED <<segVars, admitVars, pipeVars>>

SpecSplit == InitSplit /\ [][NextSplit]_vars

-----------------------------------------------------------------------------
(* Posts and the admission test of processPost *)

\* The limit of line 574.
WordLimit == 600

\* String.prototype.toLowerCase, on the letters in use.
LowerChar(c) ==
    CASE c = "U" -> "u" [] c = "P" -> "p" [] c = "D" -> "d"
      [] c = "A" -> "a" [] c = "T" -> "t" [] c = "E" -> "e"
      [] c = "W" -> "w" [] c = "B" -> "b" [] c = "C" -> "c"
      [] OTHER -> c

ToLowerCase(s) == [i \in 1..Len(s) |-> LowerChar(s[i])]

\* s.includes(sub)
Includes(s, sub) ==
    \E i \in 0..(Len(s) - Len(sub)) : SubSeq(s, i + 1, i + Len(sub)) = sub

Update == <<"u", "p", "d", "a", "t", "e">>

\* s.split(" ").length: a one-character separator that occurs k times cuts the
\* string into k + 1 pieces (empty pieces included).
SplitSpaceLength(s) == 1 + Cardinality({i \in 1..Len(s) : s[i] = " "})

\* A post body is described by its number of words, its first word and the
\* separator after the first word; the other words are "w", single-spaced.
BodyText(d) ==
    IF d.n = 0 THEN <<>>
    ELSE IF d.n = 1 THEN d.first
    ELSE d.first \o d.sep
           \o [i \in 1..(2 * (d.n - 1) - 1) |-> IF i % 2 = 1 THEN "w" ELSE " "]

\* const postTitle = post.title; const postContent = post.selftext || ""
PostTitle(p) == p.title
PostContent(p) == BodyText(p.selftext)

\* Lines 565-579: TRUE when processPost goes on to process the post.
Admit(p) ==
    /\ ~(\/ Includes(ToLowerCase(PostTitle(p)), Update)
         \/ Includes(ToLowerCase(PostContent(p)), Update))
    /\ ~(SplitSpaceLength(PostContent(p)) > WordLimit)

Titles ==
    { <<"t">>, <<"U", "p", "d", "a", "t", "e">>,
      <<"a", "n", " ", "U", "P", "D", "A", "T", "E", "!">>, <<"u", "p", " ", "d", "a", "t", "e">> }

FirstWords ==
    { <<"w">>, <<"u", "p", "d", "a", "t", "e">>, <<"U", "p", "d", "a", "t", "e", "d">>,
      <<"U", "P", "D", "A", "T", "E", ":">>, <<"u", "p", "d", "a", "t">> }

Separators == { <<" ">>, <<"\n">>, <<" ", " ">>, <<"\n", "\n">> }

BodySizes == (0..MaxSmallBody) \cup ((WordLimit - 1)..(WordLimit + 1))

Bodies == [n : BodySizes, first : FirstWords, sep : Separators]

InitAdmit ==
    /\ PipeIdle
    /\ SegIdle
    /\ SplitIdle
    /\ post \in [title : Titles, selftext : Bodies]
    /\ admitted = "none"

\* The admission test on the post.
AdmitPost ==
    /\ admitted = "none"
    /\ admitted' = IF Admit(post) THEN "accepted" ELSE "rejected"
    /\ UNCHANGED post

NextAdmit ==
    /\ AdmitPost
    /\ UNCHANGED <<segVars, splitVars, pipeVars>>

SpecAdmit == InitAdmit /\ [][NextAdmit]_vars

-----------------------------------------------------------------------------
(* The artifact store and the title cache *)

\* The characters [a-z0-9] with the flag i, line 36 (those in use).
Alnum ==
    {"a", "b", "c", "d", "e", "p", "t", "u", "w", "A", "B", "C", "D", "E", "P", "T",
     "U", "W", "0", "1", "2"}

\* .replace(/[^a-z0-9]/gi, "_")
ReplaceNonAlnum(s) == [i \in 1..Len(s) |-> IF s[i] \in Alnum THEN s[i] ELSE "_"]

\* .replace(/_+/g, "_")
RECURSIVE CollapseUnderscores(_)
CollapseUnderscores(s) ==
    IF Len(s) < 2 THEN s
    ELSE IF s[1] = "_" /\ s[2] = "_" THEN CollapseUnderscores(Tail(s))
    ELSE <<s[1]>> \o CollapseUnderscores(Tail(s))

\* .replace(/^_+|_+$/g, "")
RECURSIVE StripUnderscores(_)
StripUnderscores(s) ==
    IF Len(s) = 0 THEN s
    ELSE IF s[1] = "_" THEN StripUnderscores(Tail(s))
    ELSE IF s[Len(s)] = "_" THEN StripUnderscores(SubSeq(s, 1, Len(s) - 1))
    ELSE s

\* Lines 34-39.
sanitizeTitle(title) ==
    StripUnderscores(ToLowerCase(CollapseUnderscores(ReplaceNonAlnum(title))))

\* A path of the store: ./<folder>/<dir>/<kind>/<file of part>, where the file
\* name is fixed by dir, kind and part.
PathOf(folder, title, kind, part) ==
    [folder |-> folder, dir |-> sanitizeTitle(title), kind |-> kind, part |-> part]

\* Lines 127-129, 224-231, 632-634, 274-276.
AudioPath(folder, title, part) == PathOf(folder, title, "audio", part)
ScreenshotPath(folder, title, part) == PathOf(folder, title, "screenshot", part)
VideoPath(folder, title, part) == PathOf(folder, title, "ogVid", part)
DescriptionPath(folder, title) == PathOf(folder, title, "description", 0)

\* fs.existsSync(path)
Exists(files, path) == \E f \in files : f.path = path

\* The file at an existing path.
FileAt(files, path) == CHOOSE f \in files : f.path = path

\* Writing a whole file at path (fs.writeFileSync, a screenshot, an encode).
WriteFile(files, path, content) ==
    {f \in files : f.path # path} \cup {[path |-> path, content |-> content]}

\* Which text an artifact was made from: the post, which corrected text of it,
\* and which segment of that text (0: the whole post).
Src(pid, corr, part) == [pid |-> pid, corr |-> corr, part |-> part]
NoSrc == Src(0, "none", 0)

\* if (shortTitleCache[postTitle]): the entry is there and is not "".
CacheHit(cache, title) == \E e \in cache : e.title = title /\ e.short # <<>>

CacheValue(cache, title) == (CHOOSE e \in cache : e.title = title).short

\* shortTitleCache[postTitle] = shortTitle
CachePut(cache, title, short) ==
    {e \in cache : e.title # title} \cup {[title |-> title, short |-> short]}

-----------------------------------------------------------------------------
(* The posts the run meets, and what the external services may answer *)

\* Lines 20-24.
subreddits == <<"AmItheAsshole", "relationshipadvice", "relationship_advice">>

\* Lines 589-590.
LongThreshold == 400
SegmentMinWords == 150

\* The posts of the subreddits: 1 and 3 pass admission, 2 does not.
Catalog ==
    << [title |-> <<"A", " ", "b", "?">>,
        selftext |-> [n |-> 2, first |-> <<"w">>, sep |-> <<" ">>]],
       [title |-> <<"U", "p", "d", "a", "t", "e">>,
        selftext |-> [n |-> 2, first |-> <<"w">>, sep |-> <<" ">>]],
       [title |-> <<"c">>,
        selftext |-> [n |-> 1, first |-> <<"w">>, sep |-> <<" ">>]] >>

\* What fetchRedditPosts returns for each subreddit when it succeeds.
FeedOf == << <<1, 2, 3>>, <<>>, <<>> >>

\* A text of n words, every p-th of which ends a sentence.
Prose(n, p) ==
    Join([k \in 1..n |-> IF k % p = 0 THEN <<"w", ".">> ELSE <<"w">>])

\* The texts correctText may return for a post, by name; "orig" is the text it
\* was given, which is also what it returns when the request fails.
CorrectionsOf == << {"orig", "long"}, {"orig"}, {"orig"} >>

\* const combinedText = `${postTitle}\n\n${postContent}`
CombinedText(pid) ==
    PostTitle(Catalog[pid]) \o <<"\n", "\n">> \o PostContent(Catalog[pid])

CorrectedText(pid, corr) ==
    IF corr = "long" THEN Prose(LongThreshold + 50, 100) ELSE CombinedText(pid)

\* Lines 587-596.
SegmentsOfText(t) ==
    IF Len(SplitWs(t)) > LongThreshold
    THEN splitTextIntoSegments(t, SegmentMinWords)
    ELSE <<t>>

\* The segments of each corrected text of each post.
SegmentTable ==
    [pid \in 1..Len(Catalog) |->
        [corr \in CorrectionsOf[pid] |-> SegmentsOfText(CorrectedText(pid, corr))]]

\* The titles shortenTitle may return for a post when the request succeeds
\* (it may also return the empty string); when the request fails it returns
\* the title it was given.
ShortensOf ==
    << {<<"A", " ", "b">>}, {<<"u">>}, {<<"a", "-", "b", "!">>} >>

\* Seconds of audio PlayHT may stream for a segment, and the seconds a file
\* holds when the stream breaks off.
NarrationSeconds == {20, 90}
PartialSeconds == {5}

-----------------------------------------------------------------------------
(* The run: processSubreddits and processPost *)

\* The post being processed and its subreddit folder.
Pid == posts[postIdx]
Folder == subreddits[subIdx]

\* A call to an external service, as logged.
Call(kind, part) == [run |-> run, kind |-> kind, pid |-> Pid, part |-> part]

\* An external call fails or answers with nothing, or somebody deletes a file:
\* at most MaxFaults such events are followed.
Fault == faults < MaxFaults /\ faults' = faults + 1
NoFault == UNCHANGED faults

\* The external call of this kind for the post (and segment) failed.
Failure(kind, part) == failures' = failures \cup {Call(kind, part)}
NoFailure == UNCHANGED failures

\* The post's producer wrote the file at path.
Written(path) == writes' = writes \cup {[run |-> run, pid |-> Pid, path |-> path]}
NoWrite == UNCHANGED writes

AudioCachedIfComplete(files, path) ==
    Exists(files, path) /\ FileAt(files, path).content.complete

\* Line 131: if (fs.existsSync(audioFilePath)).
AudioCached(files, path) == Exists(files, path)

\* Line 303: const bgStart = "00:00:05".
BgStart == 5

Min(a, b) == IF a < b THEN a ELSE b
Max(a, b) == IF a > b THEN a ELSE b

\* Lines 305-350: the length of the file ffmpeg writes. The picture is the
\* background from bgStart with the screenshot laid over it, the sound is the
\* narration (-map 2:a), and -t audioDuration cuts both; the file lasts as long
\* as its longer stream.
OutputSecondsUncut(background, audioDuration) ==
    LET picture == background - BgStart
        sound == audioDuration
    IN  Max(picture, sound)

OutputSeconds(background, audioDuration) ==
    LET picture == Min(background - BgStart, audioDuration)
        sound == audioDuration
    IN  Max(picture, sound)

\* Line 661.
Hashtags == <<"#relationshipadvice #shorts #trending #viral">>

\* Lines 657-661: `${shortTitle} ${segments.length > 1 ? `- Part ${segmentIndex}` : ""}
\* #relationshipadvice #shorts #trending #viral`
PublishTitle(short, segmentIndex, length) ==
    short \o <<" ">>
          \o (IF length > 1
              THEN <<"-", " ", "P", "a", "r", "t", " ", ToString(segmentIndex)>>
              ELSE <<>>)
          \o <<" ">> \o Hashtags


\* The locals of processPost are gone.
ResetPost ==
    /\ pc' = "admit"
    /\ corrected' = "none"
    /\ shortTitle' = NoText
    /\ nSegs' = 0
    /\ segIdx' = 0

\* The start of a run of the program: lines 27-29 load the cache file, line
\* 672 starts the loop over the subreddits.
StartRun ==
    /\ runPc \in {"idle", "done", "aborted"}
    /\ run < MaxRuns
    /\ run' = run + 1
    /\ shortTitleCache' = cacheFile
    /\ runPc' = "fetch"
    /\ subIdx' = 1
    /\ posts' = <<>>
    /\ postIdx' = 0
    /\ ResetPost
    /\ narration' = "none"
    /\ NoFault
    /\ UNCHANGED <<cacheFile, store, calls, uploads, failures, writes>>

\* Between two runs somebody deletes a stored artifact or a cache entry.
DeleteArtifact ==
    /\ runPc \in {"done", "aborted"}
    /\ run < MaxRuns
    /\ Fault
    /\ \/ /\ \E f \in store : store' = store \ {f}
          /\ UNCHANGED cacheFile
       \/ /\ \E e \in cacheFile : cacheFile' = cacheFile \ {e}
          /\ UNCHANGED store
    /\ UNCHANGED <<shortTitleCache, loopVars, postVars, calls, uploads, failures, writes>>

\* Lines 672-674 and fetchRedditPosts, lines 77-90: the next subreddit is
\* fetched; an error gives no post.
FetchPosts ==
    /\ runPc = "fetch"
    /\ subIdx <= Len(subreddits)
    /\ \/ posts' = FeedOf[subIdx] /\ NoFault /\ NoFailure
       \/ /\ posts' = <<>>
          /\ Fault
          /\ failures' = failures \cup
                 {[run |-> run, kind |-> "fetch", pid |-> 0, part |-> subIdx]}
    /\ postIdx' = 1
    /\ runPc' = "posts"
    /\ calls' = calls \cup {[run |-> run, kind |-> "fetch", pid |-> 0, part |-> subIdx]}
    /\ UNCHANGED <<cacheVars, store, run, subIdx, postVars, uploads, writes>>

\* Lines 675-677: the posts of the subreddit are done.
EndOfPosts ==
    /\ runPc = "posts"
    /\ pc = "admit"
    /\ postIdx > Len(posts)
    /\ subIdx' = subIdx + 1
    /\ runPc' = "fetch"
    /\ posts' = <<>>
    /\ postIdx' = 0
    /\ NoFault
    /\ UNCHANGED <<cacheVars, store, run, postVars, calls, uploads, failures, writes>>

\* Line 672: the subreddits are done.
FinishRun ==
    /\ runPc = "fetch"
    /\ subIdx > Len(subreddits)
    /\ runPc' = "done"
    /\ NoFault
    /\ UNCHANGED <<cacheVars, store, run, subIdx, posts, postIdx, postVars, calls, uploads, failures, writes>>

InPost(stage) == runPc = "posts" /\ postIdx <= Len(posts) /\ pc = stage

\* processPost returns: the loop of line 675 goes to the next post.
ReturnFromPost ==
    /\ postIdx' = postIdx + 1
    /\ ResetPost

ContinueLoopSkipsNarration ==
    IF segIdx < nSegs
    THEN /\ segIdx' = segIdx + 1
         /\ pc' = "screenshot"
         /\ UNCHANGED <<postIdx, corrected, shortTitle, nSegs>>
    ELSE ReturnFromPost

\* The for loop of line 607 goes on: the next segment, or the end of processPost.
ContinueLoop ==
    IF segIdx < nSegs
    THEN /\ segIdx' = segIdx + 1
         /\ pc' = "speech"
         /\ UNCHANGED <<postIdx, corrected, shortTitle, nSegs>>
    ELSE ReturnFromPost

CompositeFailureReturns == ReturnFromPost

UploadFailureRetries == UNCHANGED <<postIdx, pc, corrected, shortTitle, nSegs, segIdx>>

\* Lines 644-647: the catch around createVideo logs and continues the loop.
AfterCompositeFailure == ContinueLoop

\* Lines 662-667: the catch around uploadToYouTube logs; the loop goes on.
AfterUploadFailure == ContinueLoop

\* An exception that nothing catches: the run ends there.
Abort ==
    /\ runPc' = "aborted"
    /\ UNCHANGED <<run, subIdx, posts, postIdx>>

ProcessPostCorrectsFirst ==
    /\ InPost("admit")
    /\ calls' = calls \cup {Call("correct", 0)}
    /\ IF Admit(Catalog[Pid])
       THEN /\ pc' = "correct"
            /\ UNCHANGED <<postIdx, corrected, shortTitle, nSegs, segIdx>>
       ELSE ReturnFromPost
    /\ NoFault
    /\ UNCHANGED <<cacheVars, store, run, runPc, subIdx, posts, narration, uploads,
                   failures, writes>>

\* Lines 561-579.
ProcessPostAdmission ==
    /\ InPost("admit")
    /\ IF Admit(Catalog[Pid])
       THEN /\ pc' = "correct"
            /\ UNCHANGED <<postIdx, corrected, shortTitle, nSegs, segIdx>>
       ELSE ReturnFromPost
    /\ NoFault
    /\ UNCHANGED <<cacheVars, store, run, runPc, subIdx, posts, narration, calls, uploads,
                   failures, writes>>

\* Lines 582-583 and correctText, lines 92-115: the text returned is one of the
\* post's corrected texts, or the text given (also when the request fails).
CorrectCombinedText ==
    /\ InPost("correct")
    /\ \E corr \in CorrectionsOf[Pid] : corrected' = corr
    /\ calls' = calls \cup {Call("correct", 0)}
    /\ pc' = "shorten"
    /\ NoFault
    /\ UNCHANGED <<cacheVars, store, loopVars, shortTitle, nSegs, segIdx, narration, uploads,
                   failures, writes>>

\* Line 584 with getShortTitle and shortenTitle, lines 46-75, and the
\* segmentation of lines 587-596.
GetShortTitle ==
    /\ InPost("shorten")
    /\ LET title == PostTitle(Catalog[Pid])
           Insert(short) ==
               /\ shortTitle' = short
               /\ shortTitleCache' = CachePut(shortTitleCache, title, short)
               /\ cacheFile' = CachePut(shortTitleCache, title, short)
       IN  IF CacheHit(shortTitleCache, title)
           THEN /\ shortTitle' = CacheValue(shortTitleCache, title)
                /\ NoFault
                /\ NoFailure
                /\ UNCHANGED <<cacheVars, calls>>
           ELSE /\ calls' = calls \cup {Call("shorten", 0)}
                /\ \/ /\ \E short \in ShortensOf[Pid] : Insert(short)
                      /\ NoFault
                      /\ NoFailure
                   \/ \* the answer is the empty string
                      /\ Insert(NoText)
                      /\ Fault
                      /\ NoFailure
                   \/ \* the request fails: shortenTitle returns the title
                      /\ Insert(title)
                      /\ Fault
                      /\ Failure("shorten", 0)
    /\ nSegs' = Len(SegmentTable[Pid][corrected])
    /\ pc' = "describe"
    /\ UNCHANGED <<store, loopVars, corrected, segIdx, narration, uploads, writes>>

\* Lines 599-604 and generateDescription, lines 253-285.
GenerateDescription ==
    /\ InPost("describe")
    /\ calls' = calls \cup {Call("describe", 0)}
    /\ \/ /\ store' = WriteFile(store, DescriptionPath(Folder, shortTitle),
                                [text |-> Src(Pid, "post", 0), image |-> NoSrc,
                                 seconds |-> 0, complete |-> TRUE])
          /\ Written(DescriptionPath(Folder, shortTitle))
          /\ NoFault
          /\ NoFailure
       \/ /\ UNCHANGED store
          /\ NoWrite
          /\ Fault
          /\ Failure("describe", 0)
    /\ segIdx' = 1
    /\ pc' = "speech"
    /\ UNCHANGED <<cacheVars, loopVars, corrected, shortTitle, nSegs, narration, uploads>>

\* Lines 611-621 and generateSegmentSpeech, lines 121-163.
GenerateSegmentSpeech ==
    /\ InPost("speech")
    /\ LET path == AudioPath(Folder, shortTitle, segIdx)
           Audio(secs, whole) ==
               [text |-> Src(Pid, corrected, segIdx), image |-> NoSrc,
                seconds |-> secs, complete |-> whole]
       IN  IF AudioCached(store, path)
           THEN /\ narration' = "cached"
                /\ pc' = "screenshot"
                /\ NoFault
                /\ NoFailure
                /\ NoWrite
                /\ UNCHANGED <<store, loopVars, corrected, shortTitle, nSegs, segIdx, calls>>
           ELSE /\ calls' = calls \cup {Call("narrate", segIdx)}
                /\ \/ \* the stream ends after its data
                      /\ narration' = "done"
                      /\ \E secs \in NarrationSeconds :
                            store' = WriteFile(store, path, Audio(secs, TRUE))
                      /\ Written(path)
                      /\ pc' = "screenshot"
                      /\ NoFault
                      /\ NoFailure
                      /\ UNCHANGED <<loopVars, corrected, shortTitle, nSegs, segIdx>>
                   \/ \* PlayHT.stream throws: caught at line 159, null, continue
                      /\ narration' = "requestFailed"
                      /\ ContinueLoop
                      /\ Fault
                      /\ Failure("narrate", segIdx)
                      /\ NoWrite
                      /\ UNCHANGED <<store, run, runPc, subIdx, posts>>
                   \/ \* the stream ends without data: no file, the path resolves
                      /\ narration' = "empty"
                      /\ pc' = "screenshot"
                      /\ Fault
                      /\ NoFailure
                      /\ NoWrite
                      /\ UNCHANGED <<store, loopVars, corrected, shortTitle, nSegs, segIdx>>
                   \/ \* the stream reports an error: the promise of line 146
                      \* rejects, and neither generateSegmentSpeech nor
                      \* processPost nor processSubreddits catches it
                      /\ narration' = "streamError"
                      /\ \/ UNCHANGED store /\ NoWrite
                         \/ /\ \E secs \in PartialSeconds :
                                  store' = WriteFile(store, path, Audio(secs, FALSE))
                            /\ Written(path)
                      /\ Abort
                      /\ Fault
                      /\ Failure("narrate", segIdx)
                      /\ UNCHANGED <<pc, corrected, shortTitle, nSegs, segIdx>>
    /\ UNCHANGED <<cacheVars, uploads>>

\* Lines 622-629 and generateScreenshot, lines 171-251.
GenerateScreenshot ==
    /\ InPost("screenshot")
    /\ LET path == ScreenshotPath(Folder, shortTitle, segIdx)
           \* line 184: an empty segment text is replaced by correctText(selftext)
           extra == IF SegmentTable[Pid][corrected][segIdx] = <<>>
                    THEN {Call("correct", segIdx)} ELSE {}
       IN  IF Exists(store, path)
           THEN /\ calls' = calls \cup extra
                /\ pc' = "video"
                /\ NoFault
                /\ NoFailure
                /\ NoWrite
                /\ UNCHANGED <<store, loopVars>>
           ELSE /\ calls' = calls \cup extra \cup {Call("render", segIdx)}
                /\ \/ /\ store' = WriteFile(store, path,
                                     [text |-> Src(Pid, corrected, segIdx),
                                      image |-> NoSrc, seconds |-> 0, complete |-> TRUE])
                      /\ Written(path)
                      /\ pc' = "video"
                      /\ NoFault
                      /\ NoFailure
                      /\ UNCHANGED loopVars
                   \/ \* puppeteer throws: nothing catches it
                      /\ Abort
                      /\ Fault
                      /\ Failure("render", segIdx)
                      /\ NoWrite
                      /\ UNCHANGED <<store, pc>>
    /\ UNCHANGED <<cacheVars, corrected, shortTitle, nSegs, segIdx, narration, uploads>>

\* Lines 631-652 and createVideo, lines 295-367.
CreateVideo ==
    /\ InPost("video")
    /\ LET path == VideoPath(Folder, shortTitle, segIdx)
           audioPath == AudioPath(Folder, shortTitle, segIdx)
           screenshotPath == ScreenshotPath(Folder, shortTitle, segIdx)
           Video(secs, whole) ==
               [text |-> FileAt(store, audioPath).content.text,
                image |-> FileAt(store, screenshotPath).content.text,
                seconds |-> secs, complete |-> whole]
       IN  IF Exists(store, path)
           THEN /\ pc' = "upload"
                /\ NoFault
                /\ NoFailure
                /\ NoWrite
                /\ UNCHANGED <<store, calls, postIdx, corrected, shortTitle, nSegs, segIdx>>
           ELSE /\ calls' = calls \cup {Call("composite", segIdx)}
                /\ \/ \* ffprobe reads the audio, ffmpeg encodes: -t audioDuration
                      /\ Exists(store, audioPath)
                      /\ store' = WriteFile(store, path,
                             Video(OutputSeconds(BackgroundSeconds,
                                       FileAt(store, audioPath).content.seconds), TRUE))
                      /\ Written(path)
                      /\ pc' = "upload"
                      /\ NoFault
                      /\ NoFailure
                      /\ UNCHANGED <<postIdx, corrected, shortTitle, nSegs, segIdx>>
                   \/ \* ffprobe finds no audio file: caught at line 644, continue
                      /\ ~Exists(store, audioPath)
                      /\ AfterCompositeFailure
                      /\ NoFault
                      /\ Failure("composite", segIdx)
                      /\ NoWrite
                      /\ UNCHANGED store
                   \/ \* ffprobe or ffmpeg fails: caught at line 644, continue;
                      \* ffmpeg may leave the part of the output it wrote
                      /\ Exists(store, audioPath)
                      /\ \/ UNCHANGED store /\ NoWrite
                         \/ /\ \E secs \in PartialSeconds :
                                  store' = WriteFile(store, path, Video(secs, FALSE))
                            /\ Written(path)
                      /\ AfterCompositeFailure
                      /\ Fault
                      /\ Failure("composite", segIdx)
    /\ UNCHANGED <<cacheVars, run, runPc, subIdx, posts, narration, uploads>>

\* Lines 654-667 and uploadToYouTube, lines 455-498.
UploadSegment ==
    /\ InPost("upload")
    /\ calls' = calls \cup {Call("upload", segIdx)}
    /\ LET Clip(ok) ==
               [run |-> run, pid |-> Pid, part |-> segIdx, of |-> nSegs,
                shortTitle |-> shortTitle,
                title |-> PublishTitle(shortTitle, segIdx, nSegs),
                text |-> Src(Pid, corrected, segIdx),
                video |-> FileAt(store, VideoPath(Folder, shortTitle, segIdx)).content,
                described |-> Exists(store, DescriptionPath(Folder, shortTitle)),
                ok |-> ok]
       IN  \/ /\ uploads' = uploads \cup {Clip(TRUE)}
              /\ NoFault
              /\ NoFailure
              /\ ContinueLoop
           \/ \* uploadToYouTube throws: caught at line 662
              /\ uploads' = uploads \cup {Clip(FALSE)}
              /\ Fault
              /\ Failure("upload", segIdx)
              /\ AfterUploadFailure
    /\ UNCHANGED <<cacheVars, store, run, runPc, subIdx, posts, narration, writes>>

InitRun ==
    /\ SegIdle
    /\ SplitIdle
    /\ AdmitIdle
    /\ PipeIdle

NextRun ==
    \/ StartRun /\ UNCHANGED <<segVars, splitVars, admitVars>>
    \/ DeleteArtifact /\ UNCHANGED <<segVars, splitVars, admitVars>>
    \/ FetchPosts /\ UNCHANGED <<segVars, splitVars, admitVars>>
    \/ EndOfPosts /\ UNCHANGED <<segVars, splitVars, admitVars>>
    \/ FinishRun /\ UNCHANGED <<segVars, splitVars, admitVars>>
    \/ ProcessPostAdmission /\ UNCHANGED <<segVars, splitVars, admitVars>>
    \/ CorrectCombinedText /\ UNCHANGED <<segVars, splitVars, admitVars>>
    \/ GetShortTitle /\ UNCHANGED <<segVars, splitVars, admitVars>>
    \/ GenerateDescription /\ UNCHANGED <<segVars, splitVars, admitVars>>
    \/ GenerateSegmentSpeech /\ UNCHANGED <<segVars, splitVars, admitVars>>
    \/ GenerateScreenshot /\ UNCHANGED <<segVars, splitVars, admitVars>>
    \/ CreateVideo /\ UNCHANGED <<segVars, splitVars, admitVars>>
    \/ UploadSegment /\ UNCHANGED <<segVars, splitVars, admitVars>>

\* The default specification: runs of the program over one artifact store.
Spec == InitRun /\ [][NextRun]_vars

-----
(* Claims about splitTextIntoSegments, checked under SpecSeg *)

\* The number of pieces text.split(/\s+/) gives: what the code counts as words.
TokenCount(s) == Len(SplitWs(s))

\* The number of words: the maximal runs of non-whitespace.
WordCount(s) == Cardinality({i \in 1..Len(s) : RunStartsAt(s, i)})

RECURSIVE SumTokenCounts(_, _)
SumTokenCounts(sq, k) ==
    IF k > Len(sq) THEN 0 ELSE TokenCount(sq[k]) + SumTokenCounts(sq, k + 1)

RECURSIVE SumWordCounts(_, _)
SumWordCounts(sq, k) ==
    IF k > Len(sq) THEN 0 ELSE WordCount(sq[k]) + SumWordCounts(sq, k + 1)

\* C1: when splitTextIntoSegments(text, m) has returned, with m >= 1, the token
\* counts of the returned segments sum to the token count of the text (counting
\* the pieces of split(/\s+/), and also counting only the non-empty ones), and
\* every returned segment but the last has at least m tokens.
C1_CountsSumAndMinimum ==
    segPc = "done" =>
        /\ SumTokenCounts(segments, 1) = TokenCount(text)
        /\ SumWordCounts(segments, 1) = WordCount(text)
        /\ \A k \in 1..(Len(segments) - 1) : TokenCount(segments[k]) >= minWords

C1_Witness ==
    /\ segPc = "done"
    /\ minWords >= 2
    /\ Len(segments) >= 2
    /\ TokenCount(segments[1]) > minWords

\* C2: the forEach closes a segment only at a token that ends with '.', '!' or
\* '?' and only when the buffer, that token included, holds at least minWords
\* tokens; so every returned segment that is followed by another ends in
\* terminal punctuation, and the two examples give the stated results.
C2_ClosesOnlyAtSentenceEnd ==
    /\ [][(segPc = "loop" /\ segPc' = "loop" /\ Len(segments') > Len(segments)) =>
            /\ EndsWithTerminal(words[wi + 1])
            /\ Len(currentSegment) + 1 >= minWords
            /\ segments' = Append(segments, Join(Append(currentSegment, words[wi + 1])))
         ]_vars
    /\ [](segPc = "done" =>
            /\ \A k \in 1..(Len(segments) - 1) : EndsWithTerminal(segments[k])
            /\ (text = ExampleOne /\ minWords = 3) => segments = <<ExampleOne>>
            /\ (text = ExampleTwo /\ minWords = 3) =>
                   segments = << Str(<<"a"," ","b"," ","c",".">>),
                                 Str(<<"d"," ","e"," ","f"," ","g"," ","h"," ","i",".">>) >>)

C2_Witness ==
    /\ segPc = "done"
    /\ text = ExampleTwo
    /\ minWords = 3
    /\ Len(segments) = 2

\* C3: a non-empty remainder is merged into the last emitted segment when it has
\* fewer than minWords tokens and a segment was already emitted, and otherwise
\* becomes a final segment of its own; so once two segments are returned the
\* last one has at least minWords tokens, and a text with fewer than minWords
\* tokens gives exactly one segment, holding the whole text.
C3_RemainderMergedOrOwn ==
    /\ [][(segPc = "loop" /\ segPc' = "done") =>
            IF currentSegment = <<>> THEN segments' = segments
            ELSE IF Len(currentSegment) < minWords /\ Len(segments) > 0
            THEN /\ Len(segments') = Len(segments)
                 /\ \A k \in 1..(Len(segments) - 1) : segments'[k] = segments[k]
                 /\ segments'[Len(segments)] =
                        segments[Len(segments)] \o <<" ">> \o Join(currentSegment)
            ELSE segments' = Append(segments, Join(currentSegment))
         ]_vars
    /\ [](segPc = "done" =>
            /\ Len(segments) >= 2 => TokenCount(segments[Len(segments)]) >= minWords
            /\ Len(words) < minWords =>
                   /\ Len(segments) = 1
                   /\ SplitWs(segments[1]) = SplitWs(text))

C3_Witness ==
    /\ segPc = "done"
    /\ currentSegment # <<>>
    /\ Len(currentSegment) < minWords
    /\ Len(words) > Len(currentSegment)
    /\ Len(segments) >= 1

\* C4: for a non-empty text, the returned segments joined with single spaces are
\* the tokens of the text in their order, joined with single spaces, and at
\* least one segment is returned.
C4_JoinReproducesInput ==
    (segPc = "done" /\ text # <<>>) =>
        /\ Len(segments) >= 1
        /\ Join(segments) = Join(SplitWs(text))
        /\ SplitWs(Join(segments)) = SplitWs(text)

C4_Witness ==
    /\ segPc = "done"
    /\ Len(segments) >= 2
    /\ Join(segments) # text

-----------------------------------------------------------------------------
(* Claims about splitVideo, checked under SpecSplit *)

Durations(list) == [k \in 1..Len(list) |-> list[k].dur]

\* What the claim says is returned for chunks cut with these durations.
Rebalanced(cut) ==
    IF Len(cut) > 1 /\ cut[Len(cut)] < MinLastDuration
    THEN [SubSeq(cut, 1, Len(cut) - 1)
             EXCEPT ![Len(cut) - 1] = cut[Len(cut) - 1] + cut[Len(cut)]]
    ELSE cut

\* C5: when a call of splitVideo in which no tool failed has resolved, the
\* chunks it returns are the k chunks cut from its clip, in chronological
\* order, with the last one merged into the one before it if k > 1 and it is
\* shorter than 30 s, and unchanged otherwise.
C5_ReturnsRebalancedCut ==
    (/\ splitResult.status = "resolved"
     /\ splitEnv.probe # "failed"
     /\ splitEnv.merge # "failed")
        => Durations(splitResult.segments) = Rebalanced(splitCut)

-----------------------------------------------------------------------------
(* Claims about admission, checked under SpecAdmit *)

\* s contains "update" in some letter case.
ContainsUpdate(s) ==
    \E i \in 0..(Len(s) - Len(Update)) :
        \A j \in 1..Len(Update) : LowerChar(s[i + j]) = Update[j]

\* C9: a post whose title or body contains "update" in any letter case is
\* rejected; a post whose body has more than 600 words is rejected (so one of
\* 601 words is); a post whose body has exactly 600 words and no "update" in
\* title or body is accepted.
C9_AdmissionByUpdateAndWordCount ==
    admitted # "none" =>
        LET title == PostTitle(post)
            body == PostContent(post)
            hasUpdate == ContainsUpdate(title) \/ ContainsUpdate(body)
        IN  /\ hasUpdate => admitted = "rejected"
            /\ WordCount(body) > WordLimit => admitted = "rejected"
            /\ (WordCount(body) = WordLimit /\ ~hasUpdate) => admitted = "accepted"

-----------------------------------------------------------------------------
(* Claims about the run, checked under Spec *)

\* C6: every clip handed to uploadToYouTube lasts at most the maximum chunk
\* duration and, unless it is the first clip of its post, at least the minimum
\* duration of 30 s.
C6_PublishedClipDurations ==
    \A u \in uploads :
        /\ u.video.seconds <= SegmentDuration
        /\ u.part > 1 => u.video.seconds >= MinLastDuration

\* The step made an external call of this kind.
Invoked(kind) == \E c \in calls' \ calls : c.kind = kind

\* The title has an entry in the cache.
TitleStored(title) == \E e \in shortTitleCache : e.title = title

\* C7: skip-if-present holds for the five kinds of asset: when a stage asks for
\* its asset, the producer (the external call) is invoked exactly when the
\* asset is not stored under its key, so a second request for a stored asset
\* invokes nothing and a request after a deletion invokes the producer again.
C7_SkipIfPresent ==
    [][ /\ InPost("shorten") =>
              (Invoked("shorten") <=> ~TitleStored(PostTitle(Catalog[Pid])))
        /\ InPost("describe") =>
              (Invoked("describe") <=> ~Exists(store, DescriptionPath(Folder, shortTitle)))
        /\ InPost("speech") =>
              (Invoked("narrate") <=> ~Exists(store, AudioPath(Folder, shortTitle, segIdx)))
        /\ InPost("screenshot") =>
              (Invoked("render") <=> ~Exists(store, ScreenshotPath(Folder, shortTitle, segIdx)))
        /\ InPost("video") =>
              (Invoked("composite") <=> ~Exists(store, VideoPath(Folder, shortTitle, segIdx)))
      ]_vars

\* The first run uploaded this segment of the post.
CompletedSegment(pid, part) ==
    \E u \in uploads : u.run = 1 /\ u.pid = pid /\ u.part = part /\ u.ok

\* The first run uploaded every segment of the post.
CompletedPost(pid) ==
    \E u \in uploads :
        /\ u.run = 1
        /\ u.pid = pid
        /\ \A part \in 1..u.of : CompletedSegment(pid, part)

\* C8: when nothing failed and nothing was deleted, a later run makes no
\* external call (correction, shortening, description, narration, caption
\* render, compositing, upload) for a segment the first run completed, nor a
\* call for the whole post when the first run completed all its segments.
C8_RerunMakesNoCalls ==
    faults = 0 =>
        \A c \in calls :
            (c.run > 1 /\ c.kind # "fetch") =>
                IF c.part = 0 THEN ~CompletedPost(c.pid)
                              ELSE ~CompletedSegment(c.pid, c.part)

\* C10: when the narration of segment i fails, by the request failing or by
\* the stream reporting an error, the step makes no caption, composite or
\* upload for segment i, the run is not aborted, and control is at segment
\* i+1 or, after the last segment, at the next post.
C10_NarrationFailureIsLocal ==
    [][ (InPost("speech") /\ narration' \in {"requestFailed", "streamError"}) =>
            /\ runPc' = "posts"
            /\ ~Invoked("render") /\ ~Invoked("composite") /\ ~Invoked("upload")
            /\ IF segIdx < nSegs
               THEN postIdx' = postIdx /\ segIdx' = segIdx + 1 /\ pc' = "speech"
               ELSE postIdx' = postIdx + 1 /\ pc' = "admit"
      ]_vars

\* C11: no failure aborts an admitted post: every step taken inside an
\* admitted post leaves the run going, and the post is left only from its last
\* segment, so that each of its segments is attempted and the run goes on with
\* the next post.
C11_NoFailureAbortsPost ==
    [][ (runPc = "posts" /\ postIdx <= Len(posts) /\ pc # "admit") =>
            /\ runPc' = "posts"
            /\ postIdx' # postIdx =>
                  (postIdx' = postIdx + 1 /\ segIdx = nSegs)
      ]_vars

\* The step went on with the loop over the segments: to the narration of the
\* next segment or, from the last segment, to the next post.
WentOn ==
    /\ runPc' = "posts"
    /\ IF segIdx < nSegs
       THEN postIdx' = postIdx /\ segIdx' = segIdx + 1 /\ pc' = "speech"
       ELSE postIdx' = postIdx + 1 /\ pc' = "admit"

\* The step saw a call of this kind fail.
Failed(kind) == \E f \in failures' \ failures : f.kind = kind

\* The run uploaded, or tried to upload, the segment of the post.
UploadTried(r, pid, part) ==
    \E u \in uploads : u.run = r /\ u.pid = pid /\ u.part = part

\* C12: a compositing failure for segment i aborts only that segment: the
\* segment is not uploaded in this run, and the loop goes on with segment i+1
\* (or the next post).
C12_CompositeFailureIsLocal ==
    /\ [](\A f \in failures :
             f.kind = "composite" => ~UploadTried(f.run, f.pid, f.part))
    /\ [][Failed("composite") => WentOn]_vars

\* Segment 1 failed to composite and segment 2 of the same post was uploaded in
\* the same run.
C12_Witness ==
    \E f \in failures :
        /\ f.kind = "composite"
        /\ f.part = 1
        /\ \E u \in uploads : u.run = f.run /\ u.pid = f.pid /\ u.part = 2 /\ u.ok

\* C13: an upload failure for segment i is caught and not retried in the run:
\* the loop goes on with segment i+1 (or the next post) and never comes back
\* to segment i, so later segments and posts are uploaded.
C13_UploadFailureIsLocal ==
    /\ [](\A f \in failures :
             (/\ f.kind = "upload"
              /\ f.run = run
              /\ runPc = "posts"
              /\ postIdx <= Len(posts)
              /\ pc # "admit"
              /\ Pid = f.pid) => segIdx > f.part)
    /\ [][Failed("upload") => WentOn]_vars

\* The upload of segment 1 failed and segment 2 of the same post was uploaded
\* in the same run.
C13_Witness ==
    \E f \in failures :
        /\ f.kind = "upload"
        /\ f.part = 1
        /\ \E u \in uploads : u.run = f.run /\ u.pid = f.pid /\ u.part = 2 /\ u.ok

\* C14: the title cache is append-only and keyed by the raw title: during a
\* run no entry is removed or changed, and a getShortTitle call for a title
\* that has an entry, whatever its value, returns the stored value without
\* calling the shortener.
C14_TitleCacheAppendOnly ==
    [][ runPc = "posts" =>
            /\ \A e \in shortTitleCache : e \in shortTitleCache'
            /\ (InPost("shorten") /\ TitleStored(PostTitle(Catalog[Pid]))) =>
                  /\ ~Invoked("shorten")
                  /\ shortTitle' = CacheValue(shortTitleCache, PostTitle(Catalog[Pid]))
      ]_vars

\* The external calls a stage of processPost makes.
KindsAt(stage) ==
    CASE stage = "correct" -> {"correct"}
      [] stage = "shorten" -> {"shorten"}
      [] stage = "describe" -> {"describe"}
      [] stage = "speech" -> {"narrate"}
      [] stage = "screenshot" -> {"correct", "render"}
      [] stage = "video" -> {"composite"}
      [] stage = "upload" -> {"upload"}
      [] OTHER -> {}

\* The stages of processPost that work on one segment.
SegmentStages == {"speech", "screenshot", "video", "upload"}

\* C15: one thread of control: a step makes the calls of one stage of one
\* segment of one post only; within a segment the narration is over before the
\* caption render starts, the render before the compositing, the compositing
\* before the upload; a stage of segment i+1 starts only when segment i is
\* over (uploaded, or abandoned after a failure), and a post starts only when
\* the post before it is over.
C15_SingleThreadOfControl ==
    [][ /\ \A c \in calls' \ calls :
              /\ c.run = run
              /\ IF c.kind = "fetch"
                 THEN runPc = "fetch" /\ c.part = subIdx
                 ELSE /\ runPc = "posts"
                      /\ c.pid = Pid
                      /\ c.kind \in KindsAt(pc)
                      /\ c.part = (IF pc \in SegmentStages THEN segIdx ELSE 0)
        /\ (pc' # pc /\ pc' = "screenshot") => (pc = "speech" /\ segIdx' = segIdx)
        /\ (pc' # pc /\ pc' = "video") => (pc = "screenshot" /\ segIdx' = segIdx)
        /\ (pc' # pc /\ pc' = "upload") => (pc = "video" /\ segIdx' = segIdx)
        /\ (run' = run /\ postIdx' = postIdx /\ segIdx' # segIdx) =>
              /\ segIdx' = segIdx + 1
              /\ pc' = "speech"
              /\ pc \in {"describe", "speech", "video", "upload"}
        /\ (run' = run /\ runPc = "posts" /\ postIdx <= Len(posts)
                /\ postIdx' # postIdx) =>
              /\ postIdx' = postIdx + 1
              /\ pc' = "admit"
              /\ pc \in {"admit", "speech", "video", "upload"}
      ]_vars

\* A post of two segments was uploaded and then a later post of the same run.
C15_Witness ==
    \E u, v \in uploads :
        /\ u.part = 2
        /\ u.ok
        /\ v.run = u.run
        /\ v.pid > u.pid

\* The posts of the catalog that processPost rejects.
RejectedPosts == {pid \in 1..Len(Catalog) : ~Admit(Catalog[pid])}

\* C16: admission comes before any asset generation: the processPost call of
\* a rejected post makes no external call and leaves the title cache and the
\* artifact store as they were, so no call and no write is ever made for a
\* rejected post.
C16_RejectedPostHasNoEffect ==
    /\ [](\A c \in calls : c.kind # "fetch" => c.pid \notin RejectedPosts)
    /\ [](\A w \in writes : w.pid \notin RejectedPosts)
    /\ [][ (InPost("admit") /\ Pid \in RejectedPosts) =>
               /\ UNCHANGED <<calls, store, shortTitleCache, cacheFile, uploads>>
               /\ postIdx' = postIdx + 1
               /\ pc' = "admit"
         ]_vars

\* The run has uploaded a post, has been through a rejected post, and is at
\* the post after it.
C16_Witness ==
    /\ runPc = "posts"
    /\ postIdx > 1
    /\ postIdx <= Len(posts)
    /\ posts[postIdx - 1] \in RejectedPosts
    /\ Pid \notin RejectedPosts
    /\ pc = "correct"
    /\ \E u \in uploads : u.run = run /\ u.ok

\* C17: within one run each key of the artifact store (folder, sanitized
\* short title, kind, segment) is written by the producer of one post only,
\* also when two posts of a subreddit have short titles that sanitize to the
\* same string.
C17_OneProducerPerKey ==
    \A w1, w2 \in writes :
        (w1.run = w2.run /\ w1.path = w2.path) => w1.pid = w2.pid

\* C18: the title handed to the uploader for segment i of N is the short
\* title, then " - Part i" when N > 1 and nothing when N = 1, then one space
\* and the hashtag suffix.
C18_PublishTitleFormat ==
    \A u \in uploads :
        u.title = u.shortTitle
                    \o (IF u.of > 1
                        THEN <<" ", "-", " ", "P", "a", "r", "t", " ", ToString(u.part)>>
                        ELSE <<>>)
                    \o <<" ">> \o Hashtags

\* C19: the clip createVideo writes lasts exactly as long as the narration
\* audio it was made from, when the narration is shorter than the background
\* clip after the seek and when it is longer.
C19_ClipLastsAsNarration ==
    [][ InPost("video") =>
            \A w \in writes' \ writes :
                LET clip == FileAt(store', w.path).content
                    audio == FileAt(store, AudioPath(Folder, shortTitle, segIdx)).content
                IN  clip.complete => clip.seconds = audio.seconds
      ]_vars

\* createVideo has written a clip from a narration shorter than the rest of
\* the background and one from a narration longer than it.
C19_Witness ==
    \E f, g \in store :
        /\ f.path.kind = "ogVid" /\ f.content.complete
        /\ g.path.kind = "ogVid" /\ g.content.complete
        /\ f.content.seconds < BackgroundSeconds - BgStart
        /\ g.content.seconds > BackgroundSeconds - BgStart
        /\ \E w1, w2 \in writes : w1.path = f.path /\ w2.path = g.path

\* The store holds a partly written narration file at the path.
PartialAudio(files, path) ==
    Exists(files, path) /\ ~FileAt(files, path).content.complete

\* C20: presence in the store is existence only: a narration file of which
\* only a part was written stays as it is in every later step of the program;
\* a request for the narration of its segment finds it, makes no synthesis
\* call and goes on to the caption; the clip composited for the segment is
\* made from the partial file, and that clip is what is uploaded.
C20_PartialNarrationIsKept ==
    [][ /\ runPc \in {"fetch", "posts"} =>
              \A f \in store :
                  (f.path.kind = "audio" /\ ~f.content.complete) => f \in store'
        /\ (InPost("speech")
                /\ PartialAudio(store, AudioPath(Folder, shortTitle, segIdx))) =>
              /\ ~Invoked("narrate")
              /\ pc' = "screenshot"
              /\ runPc' = "posts"
        /\ (InPost("video")
                /\ PartialAudio(store, AudioPath(Folder, shortTitle, segIdx))) =>
              \A w \in writes' \ writes :
                  LET clip == FileAt(store', w.path).content
                      audio == FileAt(store, AudioPath(Folder, shortTitle, segIdx)).content
                  IN  clip.complete =>
                          clip.seconds = audio.seconds /\ clip.text = audio.text
        /\ InPost("upload") =>
              \A u \in uploads' \ uploads :
                  u.video = FileAt(store, VideoPath(Folder, shortTitle, segIdx)).content
      ]_vars

\* A run ended on a stream error that left a partial narration file, and a
\* later run uploaded the segment's clip, made from that file, without asking
\* for the narration again.
C20_Witness ==
    \E f \in failures, u \in uploads :
        /\ f.kind = "narrate"
        /\ u.run > f.run
        /\ u.pid = f.pid
        /\ u.part = f.part
        /\ u.ok
        /\ u.video.complete
        /\ u.video.seconds \in PartialSeconds
        /\ PartialAudio(store, AudioPath(subreddits[1], u.shortTitle, u.part))
        /\ ~\E c \in calls :
               c.kind = "narrate" /\ c.run = u.run /\ c.pid = u.pid /\ c.part = u.part

\* The text an artifact was made from.
TextOf(src) == SegmentTable[src.pid][src.corr][src.part]

\* C21: the narration, the caption image and the clip uploaded for segment i
\* of a post were made from the text of that segment: the clip's sound and
\* its picture come from the text the run has for the segment.
C21_AssetsMadeFromSegmentText ==
    \A u \in uploads :
        /\ TextOf(u.video.text) = TextOf(u.text)
        /\ TextOf(u.video.image) = TextOf(u.text)

-----------------------------------------------------------------------------
(* More claims about splitVideo, checked under SpecSplit *)

\* The chunks with the last one merged into the one before it.
MergedTail(cut) ==
    IF Len(cut) > 1
    THEN [SubSeq(cut, 1, Len(cut) - 1)
             EXCEPT ![Len(cut) - 1] = cut[Len(cut) - 1] + cut[Len(cut)]]
    ELSE cut

\* C22: whatever calls were made before in the working directory, the list a
\* call of splitVideo resolves to holds the chunks cut from that call's clip,
\* as cut or with the tail merged, and no chunk of an earlier call.
C22_ReturnsOnlyOwnChunks ==
    splitResult.status = "resolved" =>
        /\ Durations(splitResult.segments) \in {splitCut, MergedTail(splitCut)}
        /\ \A k \in 1..Len(splitResult.segments) :
              splitResult.segments[k].n < Len(splitCut)

=============================================================================
